---- MODULE Spec2Model ----
(***************************************************************************)
(* A model of servicecontainer: ServiceContainer and                       *)
(* ServiceContainerTransaction (src/servicecontainer/__init__.py).         *)
(*                                                                         *)
(* Python dictionaries are objects with identity: a transaction holds      *)
(* REFERENCES to its cache dict and its params dict.  The dicts live in    *)
(* two heaps (caches, pdicts) and a transaction stores indexes into them,  *)
(* so that "copy" and "share" are different things in the model.           *)
(*                                                                         *)
(* A provider is a small program run by the resolution stack: it may read  *)
(* services and params from the transaction it receives and then returns   *)
(* or raises.  Providers are arbitrary callables and may keep state: a     *)
(* provider has a body for an invocation made while no invocation of it is *)
(* in progress and one for an invocation made while one is.                *)
(***************************************************************************)
EXTENDS Integers, Sequences, FiniteSets, TLC

VARIABLES
    container,  \* the bindings the container was constructed with, by name
    txs,        \* the transactions created so far, in creation order
    caches,     \* heap of cache dicts (ServiceContainerTransaction._services)
    pdicts,     \* heap of params dicts (ServiceContainerTransaction.params)
    stack,      \* the call stack of provider invocations in progress
    ret,        \* outcome of the last finished top-level operation
    recv,       \* history: what each provider received in the current operation
    inv,        \* history: how often each provider was invoked in the current operation
    cur         \* history: the top-level operation running or last run

vars == <<container, txs, caches, pdicts, stack, ret, recv, inv, cur>>

----------------------------------------------------------------------------
(* Bounds *)

MaxTx == 2        \* transactions created in one behaviour
MaxDepth == 3     \* nested provider invocations before the interpreter's recursion limit
CallCap == 2      \* the invocation counters saturate here

----------------------------------------------------------------------------
(* Values: service instances and param values *)

\* An object is identified by the transaction whose provider built it and
\* by its number among the objects built there; strings are interned.
Obj(t, i) == [tx |-> t, id |-> i, args |-> <<>>]
Str(s) == [tx |-> 0, id |-> 0, args |-> <<s>>]
NoVal == [tx |-> 0, id |-> -1, args |-> <<>>]
PyTrue == Str("True")
PyFalse == Str("False")

RECURSIVE ArgsOf(_)
ArgsOf(vals) ==
    IF vals = <<>> THEN <<>> ELSE vals[1].args \o ArgsOf(Tail(vals))

EmptyDict == <<>>

Put(d, k, v) == [x \in (DOMAIN d) \cup {k} |-> IF x = k THEN v ELSE d[x]]

----------------------------------------------------------------------------
(* Providers *)

Get(n) == [op |-> "get", arg |-> n]
Param(k) == [op |-> "param", arg |-> k]
Ret(how) == [op |-> "ret", arg |-> how]

\* bodies: what an invocation may run; nested: what it may run when an
\* invocation of the same provider is already in progress
Provider(arity, bodies) ==
    [callable |-> TRUE, arity |-> arity, bodies |-> bodies, nested |-> bodies]

\* test_consistent_dependencies_for_subservices and the class docstring
DepsContainer ==
    [n \in {"obj", "foo_a", "foo_b", "comparison"} |->
        CASE n = "obj" -> Provider(0, {<<Ret("new")>>})
          [] n = "foo_a" -> Provider(1, {<<Get("obj"), Ret("last")>>})
          [] n = "foo_b" -> Provider(1, {<<Get("obj"), Ret("last")>>})
          [] n = "comparison" -> Provider(1, {<<Get("foo_a"), Get("foo_b"), Ret("is")>>})]

\* test_circular_dependency
CycleContainer ==
    [n \in {"foo", "bar"} |->
        CASE n = "foo" -> Provider(1, {<<Get("bar"), Ret("last")>>})
          [] n = "bar" -> Provider(1, {<<Get("foo"), Ret("last")>>})]

\* test_params and the docstring's connection provider
ParamsContainer ==
    [n \in {"connection", "bar"} |->
        CASE n = "connection" -> Provider(1, {<<Param("lang"), Ret("mk")>>})
          [] n = "bar" -> Provider(1, {<<Param("lang"), Param("env"), Ret("mk")>>})]

\* test_exception_in_provider, a provider of two arguments, a non-callable
ErrorsContainer ==
    [n \in {"obj", "throw", "half", "two_args", "not_callable"} |->
        CASE n = "obj" -> Provider(0, {<<Ret("new")>>})
          [] n = "throw" -> Provider(1, {<<Ret("raise")>>})
          [] n = "half" -> Provider(1, {<<Get("obj"), Get("throw"), Ret("last")>>})
          [] n = "two_args" -> Provider(2, {<<Ret("new")>>})
          [] n = "not_callable" -> [Provider(0, {<<Ret("new")>>}) EXCEPT !.callable = FALSE]]

\* a provider that reads its own service before it returns, unless it is
\* already doing so:
\*   def re(t):
\*       if not busy: busy = True; t.re; busy = False
\*       return object()
ReentrantContainer ==
    [n \in {"re", "user"} |->
        CASE n = "re" -> [Provider(1, {<<Get("re"), Ret("new")>>})
                            EXCEPT !.nested = {<<Ret("new")>>}]
          [] n = "user" -> Provider(1, {<<Get("re"), Ret("last")>>})]

\* a provider that reads its own service and then fails, unless it is
\* already doing so:
\*   def re_throw(t):
\*       if not busy: busy = True; t.re_throw; busy = False; raise IOError()
\*       return object()
ReentrantThrowContainer ==
    [n \in {"re_throw"} |->
        [Provider(1, {<<Get("re_throw"), Ret("raise")>>})
            EXCEPT !.nested = {<<Ret("new")>>}]]

ContainerIds == {"deps", "cycle", "params", "errors", "reentrant", "reentrant_throw"}

\* A provider mapping is named by the container it was given to; a copy of
\* the mapping (dict.copy()) has the same name, no code writes to one.
Registry(c) ==
    CASE c = "deps" -> DepsContainer
      [] c = "cycle" -> CycleContainer
      [] c = "params" -> ParamsContainer
      [] c = "errors" -> ErrorsContainer
      [] c = "reentrant" -> ReentrantContainer
      [] c = "reentrant_throw" -> ReentrantThrowContainer

\* ServiceContainer._service_providers of the container
providers == Registry(container)

Nonexistent == "nonexistent"

\* the names a caller asks for: the registered ones and one that is not
Requested == (DOMAIN providers) \cup {Nonexistent}

\* names that normal attribute lookup finds on a transaction, so that
\* reading them never reaches ServiceContainerTransaction.__getattr__
OwnAttributes == {"params"}

\* the names a caller may read from the container, which has no `params`
ContainerRequested == Requested \cup OwnAttributes

\* keyword arguments of sc(**params): distinct keys, in call order
KV(k, v) == [k |-> k, v |-> v]

ParamItems ==
    { <<>>,
      <<KV("lang", "cz")>>, <<KV("env", "test")>>,
      <<KV("env", "test"), KV("lang", "sk")>> }

----------------------------------------------------------------------------
(* Outcomes *)

None == [status |-> "none", val |-> NoVal, err |-> "", name |-> ""]
Ok(v) == [status |-> "ok", val |-> v, err |-> "", name |-> ""]
Err(e, n) == [status |-> "err", val |-> NoVal, err |-> e, name |-> n]

\* the program state the operations transform; a running call continues
\* from Running, a new top-level operation starts from Starting
Running ==
    [txs |-> txs, caches |-> caches, pdicts |-> pdicts, stack |-> stack,
     ret |-> None, recv |-> recv, inv |-> inv]

NoCalls == [n \in DOMAIN providers |-> 0]

Starting == [Running EXCEPT !.recv = {}, !.inv = NoCalls]

Commit(s) ==
    /\ txs' = s.txs
    /\ caches' = s.caches
    /\ pdicts' = s.pdicts
    /\ stack' = s.stack
    /\ ret' = s.ret
    /\ recv' = s.recv
    /\ inv' = s.inv

Bump(c) == IF c < CallCap THEN c + 1 ELSE c


----------------------------------------------------------------------------
(* ServiceContainerTransaction.__getattr__ and _get_service *)

Top(s) == s.stack[Len(s.stack)]
Pop(st) == SubSeq(st, 1, Len(st) - 1)

CacheOf(s, t) == s.caches[s.txs[t].services]
ParamsOf(s, t) == s.pdicts[s.txs[t].params]

\* a value comes back to whoever asked for `name`: the provider on top of
\* the stack, or the top-level caller
Deliver(s, name, v) ==
    IF s.stack = <<>>
    THEN [s EXCEPT !.ret = Ok(v)]
    ELSE [s EXCEPT !.stack[Len(s.stack)].vals = Append(@, v),
                   !.stack[Len(s.stack)].pc = @ + 1,
                   !.recv = @ \cup {[by |-> Top(s).name, name |-> name, val |-> v]}]

RaiseRollback(s, e, n) ==
    [s EXCEPT !.stack = <<>>, !.ret = Err(e, n),
              !.caches = [i \in DOMAIN s.caches |-> EmptyDict]]

RaiseSwallowed(s, e, n) == [s EXCEPT !.stack = <<>>, !.ret = Ok(NoVal)]

\* an exception is caught nowhere: it unwinds every provider in progress
\* and reaches the top-level caller
Raise(s, e, n) == [s EXCEPT !.stack = <<>>, !.ret = Err(e, n)]

InCacheNever(cache, name) == FALSE

\* `name not in self._services`, negated
InCache(cache, name) == name \in DOMAIN cache

\* `name in self._service_providers`
HasProvider(sp, name) == name \in DOMAIN sp

\* self._services[name] = service
StoreService(cache, name, service) == Put(cache, name, service)

MissingProviderDefault(s, t, name) ==
    Deliver([s EXCEPT !.caches[s.txs[t].services] = Put(@, name, NoVal)], name, NoVal)

\* raise KeyError('Missing provider for service "{}"'.format(name))
MissingProvider(s, t, name) == Raise(s, "KeyError", name)

\* the interpreter refuses a call once the stack is MaxDepth providers deep
AtRecursionLimit(st) == Len(st) >= MaxDepth

\* the bodies the provider registered under `name` may run when it is
\* invoked with the providers of `st` in progress
BodyChoices(sp, name, st) ==
    IF name \notin DOMAIN sp THEN {<<>>}
    ELSE IF \E i \in 1..Len(st) : st[i].name = name
         THEN sp[name].nested
         ELSE sp[name].bodies

\* provider() or provider(self): the provider starts running body `body`
Invoke(s, t, name, body) ==
    [s EXCEPT !.stack = Append(@, [tx |-> t, name |-> name, body |-> body,
                                   pc |-> 1, vals |-> <<>>]),
              !.inv[name] = Bump(@)]

GetServiceAnyArity(s, t, name, body) ==
    LET sp == Registry(s.txs[t].service_providers) IN
    IF ~HasProvider(sp, name) THEN MissingProvider(s, t, name)
    ELSE IF ~sp[name].callable THEN Raise(s, "ValueError", name)
    ELSE IF AtRecursionLimit(s.stack) THEN Raise(s, "RecursionError", name)
    ELSE Invoke(s, t, name, body)

\* ServiceContainerTransaction._get_service(name), up to the provider call
GetService(s, t, name, body) ==
    LET sp == Registry(s.txs[t].service_providers) IN
    IF ~HasProvider(sp, name) THEN MissingProvider(s, t, name)
    ELSE IF ~sp[name].callable THEN Raise(s, "ValueError", name)
    ELSE IF sp[name].arity \notin {0, 1} THEN Raise(s, "ValueError", name)
    ELSE IF AtRecursionLimit(s.stack) THEN Raise(s, "RecursionError", name)
    ELSE Invoke(s, t, name, body)

GetAttr(s, t, name, body) ==
    IF InCache(CacheOf(s, t), name)
    THEN Deliver(s, name, CacheOf(s, t)[name])
    ELSE GetService(s, t, name, body)

\* the value a provider returns
Returned(f, id, how) ==
    CASE how = "new" -> Obj(f.tx, id)
      [] how = "mk" -> [tx |-> f.tx, id |-> id, args |-> ArgsOf(f.vals)]
      [] how = "last" -> f.vals[Len(f.vals)]
      [] how = "is" -> IF f.vals[1] = f.vals[2] THEN PyTrue ELSE PyFalse

Allocates(how) == how \in {"new", "mk"}

\* history: the k-th return of the provider for `name` on a transaction
\* whose returns so far are `made`
Made(made, name, v) ==
    [name |-> name, val |-> v, k |-> Cardinality({e \in made : e.name = name}) + 1]

\* the provider returned `v`: __getattr__ stores it and returns the entry
ProviderReturns(s, v, alloc) ==
    LET f == Top(s)
        ref == s.txs[f.tx].services
        s1 == [s EXCEPT !.caches[ref] = StoreService(@, f.name, v),
                        !.stack = Pop(@),
                        !.txs[f.tx].built = IF alloc THEN @ + 1 ELSE @,
                        !.txs[f.tx].made = @ \cup {Made(@, f.name, v)}]
    IN  Deliver(s1, f.name, s1.caches[ref][f.name])

\* t.params[k] inside a provider
ReadParam(s, k) ==
    LET f == Top(s)
        d == ParamsOf(s, f.tx)
    IN  IF k \in DOMAIN d
        THEN [s EXCEPT !.stack[Len(s.stack)].vals = Append(@, Str(d[k])),
                       !.stack[Len(s.stack)].pc = @ + 1]
        ELSE Raise(s, "KeyError", k)


----------------------------------------------------------------------------
(* Creating transactions *)

RECURSIVE DictOf(_)
\* the dict of the keyword arguments `items`
DictOf(items) ==
    IF items = <<>> THEN EmptyDict
    ELSE Put(DictOf(SubSeq(items, 1, Len(items) - 1)),
             items[Len(items)].k, items[Len(items)].v)

ContainerServicesShared(s) == 1

\* `{} if services is None`: the cache of a transaction the container
\* creates is a new dict
ContainerServicesRef(s) == Len(s.caches) + 1

\* ServiceContainer._create_transaction(params) and the transaction's __init__
ContainerCreateTransaction(s, items, kind, root) ==
    LET sref == ContainerServicesRef(s)
        tx == [service_providers |-> container,
               services |-> sref,
               params |-> Len(s.pdicts) + 1,
               parent |-> 0, kind |-> kind, root |-> root, built |-> 0,
               snap |-> EmptyDict, made |-> {}, outcome |-> None]
    IN  [s EXCEPT !.txs = Append(@, tx),
                  !.caches = IF sref > Len(@) THEN Append(@, EmptyDict) ELSE @,
                  !.pdicts = Append(@, DictOf(items))]

NewParamsAliased(s, t) == s.txs[t].params

\* new_params = self.params.copy(): a new dict
NewParamsRef(s, t) == Len(s.pdicts) + 1

NewServicesAliased(s, t) == s.txs[t].services

\* self._services.copy(): a new dict
NewServicesRef(s, t) == Len(s.caches) + 1

CopyDictEmpty(d) == EmptyDict

\* dict.copy(): the same keys with the same values
CopyDict(d) == d

RECURSIVE SetParamsNoStore(_, _, _)
SetParamsNoStore(pd, ref, items) ==
    IF items = <<>> THEN [ok |-> TRUE, pdicts |-> pd, key |-> ""]
    ELSE IF items[1].k \in DOMAIN pd[ref]
         THEN [ok |-> FALSE, pdicts |-> pd, key |-> items[1].k]
         ELSE SetParamsNoStore(pd, ref, Tail(items))

RECURSIVE SetParams(_, _, _)
\* for k, v in params.items(): raise if k is in new_params, else set it
SetParams(pd, ref, items) ==
    IF items = <<>> THEN [ok |-> TRUE, pdicts |-> pd, key |-> ""]
    ELSE IF items[1].k \in DOMAIN pd[ref]
         THEN [ok |-> FALSE, pdicts |-> pd, key |-> items[1].k]
         ELSE SetParams([pd EXCEPT ![ref] = Put(@, items[1].k, items[1].v)],
                        ref, Tail(items))

\* ServiceContainerTransaction._create_transaction(params)
TransactionCreateTransaction(s, t, items) ==
    LET pref == NewParamsRef(s, t)
        pd0 == IF pref > Len(s.pdicts)
               THEN Append(s.pdicts, CopyDict(ParamsOf(s, t)))
               ELSE s.pdicts
        r == SetParams(pd0, pref, items)
        sref == NewServicesRef(s, t)
        tx == [service_providers |-> s.txs[t].service_providers,
               services |-> sref,
               params |-> pref,
               parent |-> t, kind |-> "fork", root |-> "", built |-> 0,
               snap |-> CacheOf(s, t), made |-> {}, outcome |-> None]
    IN  IF ~r.ok
        THEN \* the new dict is dropped with the exception
             [Raise(s, "ValueError", r.key) EXCEPT
                 !.pdicts = SubSeq(r.pdicts, 1, Len(s.pdicts))]
        ELSE [s EXCEPT !.txs = Append(@, tx),
                       !.caches = IF sref > Len(@)
                                  THEN Append(@, CopyDict(CacheOf(s, t)))
                                  ELSE @,
                       !.pdicts = r.pdicts,
                       !.ret = Ok(NoVal)]

\* would t._create_transaction(items) raise?
Overrides(t, items) == \E i \in 1..Len(items) : items[i].k \in DOMAIN pdicts[txs[t].params]

----------------------------------------------------------------------------
(* Operations *)

Idle == stack = <<>>

\* the transactions a caller holds: those of a scope, not the implicit ones
Held == {t \in 1..Len(txs) : txs[t].kind # "implicit"}

\* history: an operation on transaction t, with t's cache as the operation
\* finds it (empty for a transaction the operation creates)
Op(op, t, name, items) ==
    [op |-> op, tx |-> t, name |-> name, items |-> items,
     pre |-> IF t \in DOMAIN txs THEN caches[txs[t].services] ELSE EmptyDict]

\* history: the outcome of sc.name is kept with the transaction it created
RecordOutcome(s, t) ==
    IF s.stack = <<>> /\ s.txs[t].kind = "implicit"
    THEN [s EXCEPT !.txs[t].outcome = s.ret]
    ELSE s

\* the dict object t.params evaluates to
ParamsObject(s, t) == [tx |-> s.txs[t].params, id |-> 0, args |-> <<"params">>]

\* only the providers of ParamsContainer read params
Items == IF container = "params" THEN ParamItems ELSE {<<>>}

GetAttrParamsDefaulted == <<KV("lang", "cz")>>

\* the `{}` of self._create_transaction({}) in ServiceContainer.__getattr__
GetAttrParams == <<>>

\* sc.name: ServiceContainer.__getattr__
ContainerGet(name) ==
    /\ Idle
    /\ Len(txs) < MaxTx
    /\ \E body \in BodyChoices(providers, name, stack) :
          LET s1 == ContainerCreateTransaction(Starting, GetAttrParams, "implicit", name)
          IN  Commit(RecordOutcome(GetAttr(s1, Len(s1.txs), name, body), Len(s1.txs)))
    /\ cur' = Op("container_get", Len(txs) + 1, name, <<>>)
    /\ UNCHANGED container

\* `with sc as t` (no items) and `with sc(**items) as t`
ContainerEnter(items) ==
    /\ Idle
    /\ Len(txs) < MaxTx
    /\ Commit([ContainerCreateTransaction(Starting, items, "scope", "") EXCEPT !.ret = Ok(NoVal)])
    /\ cur' = Op("container_enter", Len(txs) + 1, "", items)
    /\ UNCHANGED container

\* t.name: ServiceContainerTransaction.__getattr__
TransactionGet(t, name) ==
    /\ Idle
    /\ \E body \in BodyChoices(Registry(txs[t].service_providers), name, stack) :
          Commit(GetAttr(Starting, t, name, body))
    /\ cur' = Op("get", t, name, <<>>)
    /\ UNCHANGED container

\* t.params: normal attribute lookup finds the instance attribute set in
\* __init__; __getattr__ is not called
TransactionReadAttribute(t, name) ==
    /\ Idle
    /\ Commit([Starting EXCEPT !.ret = Ok(ParamsObject(Starting, t))])
    /\ cur' = Op("read", t, name, <<>>)
    /\ UNCHANGED container

\* `with t as t2` (no items) and `with t(**items) as t2`
TransactionFork(t, items) ==
    /\ Idle
    /\ Len(txs) < MaxTx \/ Overrides(t, items)
    /\ Commit(TransactionCreateTransaction(Starting, t, items))
    /\ cur' = Op("fork", t, "", items)
    /\ UNCHANGED container

\* the provider on top of the stack runs its next statement
Step ==
    /\ ~Idle
    /\ LET f == stack[Len(stack)]
           op == f.body[f.pc]
       IN  CASE op.op = "get" ->
                  \E body \in BodyChoices(Registry(txs[f.tx].service_providers), op.arg, stack) :
                      Commit(RecordOutcome(GetAttr(Running, f.tx, op.arg, body), cur.tx))
             [] op.op = "param" -> Commit(RecordOutcome(ReadParam(Running, op.arg), cur.tx))
             [] op.op = "ret" ->
                  IF op.arg = "raise"
                  THEN Commit(RecordOutcome(Raise(Running, "IOError", f.name), cur.tx))
                  ELSE Commit(RecordOutcome(
                           ProviderReturns(Running, Returned(f, txs[f.tx].built + 1, op.arg),
                                           Allocates(op.arg)), cur.tx))
    /\ UNCHANGED <<container, cur>>

Init ==
    /\ container \in ContainerIds
    /\ txs = <<>>
    /\ caches = <<>>
    /\ pdicts = <<>>
    /\ stack = <<>>
    /\ ret = None
    /\ recv = {}
    /\ inv = NoCalls
    /\ cur = Op("init", 0, "", <<>>)

Next ==
    \/ \E name \in ContainerRequested : ContainerGet(name)
    \/ \E items \in Items : ContainerEnter(items)
    \/ \E t \in Held, name \in Requested : TransactionGet(t, name)
    \/ \E t \in Held, name \in OwnAttributes : TransactionReadAttribute(t, name)
    \/ \E t \in Held, items \in Items : TransactionFork(t, items)
    \/ Step

Spec == Init /\ [][Next]_vars

\* the container of test_circular_dependency
CycleInit == Init /\ container = "cycle"

\* a call that is running keeps running: execution is synchronous
CycleSpec == CycleInit /\ [][Next]_vars /\ WF_vars(Step)

----------------------------------------------------------------------------
(* Vocabulary of the properties *)

Txs == 1..Len(txs)
Cache(t) == caches[txs[t].services]
Params(t) == pdicts[txs[t].params]
Implicit == {t \in Txs : txs[t].kind = "implicit"}
Forks == {t \in Txs : txs[t].parent # 0}
Running1 == stack[Len(stack)]

\* a provider all of whose bodies end by building a new object
Fresh(n) ==
    /\ n \in DOMAIN providers
    /\ \A b \in providers[n].bodies : b[Len(b)].arg \in {"new", "mk"}

IsObject(v) == v.id > 0

RECURSIVE IsAncestor(_, _)
\* a is reachable from d by following parent links (one or more)
IsAncestor(a, d) ==
    /\ txs[d].parent # 0
    /\ (txs[d].parent = a \/ IsAncestor(a, txs[d].parent))

TypeOK ==
    /\ container \in ContainerIds
    /\ Len(caches) = Len(txs)
    /\ Len(pdicts) = Len(txs)
    /\ Len(txs) <= MaxTx
    /\ Len(stack) <= MaxDepth
    /\ ret.status \in {"none", "ok", "err"}
    /\ (ret.status = "none") = (stack # <<>> \/ cur.op = "init")
    /\ \A t \in Txs : txs[t].services = t /\ txs[t].params = t

----------------------------------------------------------------------------
(* C1 *)

\* C1: a cache entry, once written, is never replaced by a different
\* instance, so every successful t.Get(n) returns the instance the first
\* successful t.Get(n) returned.
C1_IdentityWithinTransaction ==
    [][\A t \in Txs : \A n \in DOMAIN Cache(t) :
          /\ n \in DOMAIN Cache(t)'
          /\ Cache(t)'[n] = Cache(t)[n]]_vars

----------------------------------------------------------------------------
(* C2 *)

\* C2: two Container.Get(n) calls for a provider that builds a fresh
\* instance return distinct instances, and the transaction each call
\* creates shares its cache with no other transaction.
C2_IsolationAcrossImplicitLookups ==
    /\ \A i \in Implicit : \A t \in Txs \ {i} : txs[i].services # txs[t].services
    /\ (/\ stack = <<>>
        /\ cur.op = "container_get"
        /\ ret.status = "ok"
        /\ Fresh(cur.name))
       => \A i \in Implicit \ {cur.tx} :
             (txs[i].root = cur.name /\ cur.name \in DOMAIN Cache(i))
                => Cache(i)[cur.name] # ret.val

C2_Witness ==
    /\ stack = <<>>
    /\ cur.op = "container_get"
    /\ ret.status = "ok"
    /\ Fresh(cur.name)
    /\ \E i \in Implicit \ {cur.tx} :
          txs[i].root = cur.name /\ cur.name \in DOMAIN Cache(i)

----------------------------------------------------------------------------
(* C3 *)

\* C3: during one top-level Get every provider in progress runs on the
\* same transaction; a name that two different providers both resolve is
\* built once and both receive the identical instance; objects fetched by
\* two separate Container.Get calls are different instances.
C3_ConsistentDependencies ==
    /\ \A i \in 1..Len(stack) : stack[i].tx = stack[1].tx
    /\ \A r1 \in recv : \A r2 \in recv :
          (r1.name = r2.name /\ r1.by # r2.by)
             => (r1.val = r2.val /\ inv[r1.name] <= 1)
    /\ \A i \in Implicit : \A j \in Implicit \ {i} :
          \A m1 \in DOMAIN Cache(i) : \A m2 \in DOMAIN Cache(j) :
             IsObject(Cache(i)[m1]) => Cache(i)[m1] # Cache(j)[m2]

----------------------------------------------------------------------------
(* C4 *)

\* C4: for every name in the parent's cache at the moment of the fork, a
\* Get on the forked transaction returns the instance the parent holds and
\* invokes no provider.
C4_ForkPreservesCache ==
    /\ \A t \in Forks : \A n \in DOMAIN txs[t].snap :
          /\ n \in DOMAIN Cache(t)
          /\ Cache(t)[n] = txs[t].snap[n]
          /\ Cache(txs[t].parent)[n] = txs[t].snap[n]
    /\ (/\ cur.op = "get"
        /\ cur.tx \in Forks
        /\ cur.name \in DOMAIN txs[cur.tx].snap)
       => /\ stack = <<>>
          /\ ret = Ok(Cache(txs[cur.tx].parent)[cur.name])
          /\ inv = NoCalls

C4_Witness ==
    /\ cur.op = "get"
    /\ cur.tx \in Forks
    /\ cur.name \in DOMAIN txs[cur.tx].snap
    /\ ret.status = "ok"
    /\ IsObject(ret.val)

----------------------------------------------------------------------------
(* C5 *)

\* C5: a step that changes the cache of one transaction is the return of a
\* provider running on that transaction and leaves every other
\* transaction's cache unchanged; a fresh-built name that is not part of
\* the fork snapshot and is cached in both the parent and the fork holds
\* two different instances.
C5_IndependenceAfterFork ==
    /\ [][\A t \in Txs :
            Cache(t)' # Cache(t)
               => /\ stack # <<>>
                  /\ Running1.tx = t
                  /\ DOMAIN Cache(t)' = DOMAIN Cache(t) \cup {Running1.name}
                  /\ \A u \in Txs \ {t} : Cache(u)' = Cache(u)]_vars
    /\ [](\A t \in Forks : \A n \in DOMAIN Cache(t) :
            (/\ n \notin DOMAIN txs[t].snap
             /\ Fresh(n)
             /\ n \in DOMAIN Cache(txs[t].parent))
               => Cache(t)[n] # Cache(txs[t].parent)[n])

C5_Witness ==
    \E t \in Forks : \E n \in DOMAIN Cache(t) :
        /\ n \notin DOMAIN txs[t].snap
        /\ Fresh(n)
        /\ n \in DOMAIN Cache(txs[t].parent)
        /\ txs[t].snap # EmptyDict

----------------------------------------------------------------------------
(* C6 *)

Keys(items) == {items[i].k : i \in 1..Len(items)}

\* the step is t.Fork(items), started by the caller
IsFork(t, items) == stack = <<>> /\ cur' = Op("fork", t, "", items)

\* C6: a Fork whose params hold a key already present in t.params fails
\* with Param Override naming such a key, creates no transaction and
\* leaves every params dict and every cache as it was.
C6_ParamOverrideAllOrNothing ==
    [][\A t \in Held : \A items \in ParamItems :
          (IsFork(t, items) /\ Keys(items) \cap DOMAIN Params(t) # {})
             => /\ ret'.status = "err"
                /\ ret'.err = "ValueError"
                /\ ret'.name \in Keys(items) \cap DOMAIN Params(t)
                /\ stack' = <<>>
                /\ txs' = txs
                /\ pdicts' = pdicts
                /\ caches' = caches]_vars

\* a failed Fork whose params also carried a new key, placed first
C6_Witness ==
    /\ cur.op = "fork"
    /\ ret.status = "err"
    /\ ret.err = "ValueError"
    /\ Len(cur.items) = 2
    /\ cur.items[1].k \notin DOMAIN Params(cur.tx)

----------------------------------------------------------------------------
(* C7 *)

\* C7: every key of a transaction's params is in the params of each of
\* its descendants with the same value, and no step changes the params of
\* an existing transaction.
C7_ParamsWriteOnce ==
    /\ [](\A t \in Txs : \A d \in Txs :
            IsAncestor(t, d)
               => \A k \in DOMAIN Params(t) :
                     k \in DOMAIN Params(d) /\ Params(d)[k] = Params(t)[k])
    /\ [][\A t \in Txs : Params(t)' = Params(t)]_vars

\* a descendant that inherited a key and added one, with a service built in it
C7_Witness ==
    \E d \in Forks :
        /\ Params(txs[d].parent) # EmptyDict
        /\ DOMAIN Params(d) # DOMAIN Params(txs[d].parent)
        /\ Cache(d) # txs[d].snap

----------------------------------------------------------------------------
(* C8 *)

\* the params a provider read to build v, in the order connection and bar read them
ReadBy(n, d) ==
    IF n = "connection" THEN <<d["lang"]>> ELSE <<d["lang"], d["env"]>>

\* C8: a Fork none of whose keys is in t.params succeeds and yields a
\* transaction whose params are t.params extended with the new params;
\* a provider run in a transaction reads the inherited and the new keys.
C8_AdditiveFork ==
    /\ [][\A t \in Held : \A items \in ParamItems :
            (IsFork(t, items) /\ Keys(items) \cap DOMAIN Params(t) = {})
               => /\ ret' = Ok(NoVal)
                  /\ Len(txs') = Len(txs) + 1
                  /\ txs'[Len(txs')].parent = t
                  /\ pdicts'[txs'[Len(txs')].params]
                        = [k \in DOMAIN Params(t) \cup Keys(items) |->
                             IF k \in DOMAIN Params(t) THEN Params(t)[k]
                             ELSE DictOf(items)[k]]]_vars
    /\ [](container = "params"
            => \A t \in Txs : \A n \in DOMAIN Cache(t) :
                  Cache(t)[n].tx = t => Cache(t)[n].args = ReadBy(n, Params(t)))

\* the test's case: bar built in a fork that inherited lang and added env
C8_Witness ==
    \E t \in Forks :
        /\ "bar" \in DOMAIN Cache(t)
        /\ Cache(t)["bar"].tx = t
        /\ DOMAIN Params(txs[t].parent) = {"lang"}
        /\ Cache(t)["bar"].args = <<Params(txs[t].parent)["lang"], "test">>

----------------------------------------------------------------------------
(* C9 *)

IsGet == cur.op \in {"get", "container_get"}

\* C9: with foo -> bar and bar -> foo, a Get of foo or bar always ends, ends
\* with the recursion-limit error and never with a value, and no name of
\* the cycle is ever in a cache.
C9_CycleDetection ==
    /\ [](container = "cycle"
            => /\ \A t \in Txs : DOMAIN Cache(t) \cap {"foo", "bar"} = {}
               /\ (stack = <<>> /\ IsGet /\ cur.name \in {"foo", "bar"})
                     => ret = Err("RecursionError", ret.name))
    /\ ((container = "cycle" /\ stack # <<>>) ~> (stack = <<>>))

C9_Witness ==
    /\ container = "cycle"
    /\ stack = <<>>
    /\ cur.op = "container_get"
    /\ cur.name = "foo"
    /\ ret.err = "RecursionError"

----------------------------------------------------------------------------
(* C10 *)

\* C10: a Get of a name that has no provider, on a container or on a
\* transaction, fails with Missing Provider naming it, invokes no provider
\* and leaves the caches as they were (the new transaction's cache empty).
C10_MissingProvider ==
    [][(/\ stack = <<>>
        /\ cur'.op \in {"get", "container_get"}
        /\ cur'.name \notin DOMAIN providers)
          => /\ stack' = <<>>
             /\ ret' = Err("KeyError", cur'.name)
             /\ inv' = NoCalls
             /\ \A t \in Txs : Cache(t)' = Cache(t)
             /\ caches'[txs'[cur'.tx].services]
                   = IF cur'.op = "get" THEN Cache(cur'.tx) ELSE EmptyDict]_vars

C10_Witness ==
    /\ cur.op = "get"
    /\ cur.name = Nonexistent
    /\ ret = Err("KeyError", Nonexistent)
    /\ Cache(cur.tx) # EmptyDict

----------------------------------------------------------------------------
(* C11 *)

\* C11: when the provider for n was invoked by a top-level Get(n) on t and
\* the Get failed, n is not in t's cache afterwards (so that a later
\* t.Get(n) misses the cache and invokes the provider again).
C11_ProviderFailurePassthrough ==
    (/\ Idle /\ IsGet
     /\ cur.name \in DOMAIN providers
     /\ inv[cur.name] >= 1
     /\ ret.status = "err")
        => cur.name \notin DOMAIN Cache(cur.tx)

----------------------------------------------------------------------------
(* C12 *)

\* how many invocations of the provider for n on t have returned
Returns(t, n) == Cardinality({e \in txs[t].made : e.name = n})

\* the invocations of the provider for n on t that are in progress
InProgress(t, n) ==
    Cardinality({i \in 1..Len(stack) : stack[i].tx = t /\ stack[i].name = n})

\* constructing a container, entering a scope, forking and reading params
\* invoke no provider, and neither does a Get whose name is cached
OnlyOnCacheMiss ==
    /\ cur.op \in {"init", "container_enter", "fork", "read"} => Idle /\ inv = NoCalls
    /\ (cur.op = "get" /\ cur.name \in DOMAIN cur.pre) => Idle /\ inv = NoCalls

\* DepsContainer is acyclic and its providers succeed
AcyclicAndSucceeding == container = "deps"

\* every invocation the operation made has returned once the operation
\* has, and each left one new entry
AllInvocationsReturned ==
    Idle => \A n \in DOMAIN providers :
               inv[n] = IF cur.tx \in Txs /\ n \in (DOMAIN Cache(cur.tx)) \ (DOMAIN cur.pre)
                        THEN 1 ELSE 0

\* C12 as stated: providers run only on a cache miss of Get, and with an
\* acyclic dependency graph and providers that succeed the provider for n
\* has been invoked exactly once in a transaction in which n was requested.
C12_ExactlyOncePerTransaction ==
    /\ OnlyOnCacheMiss
    /\ (AcyclicAndSucceeding /\ Idle /\ cur.op = "get" /\ cur.name \in DOMAIN providers)
           => Returns(cur.tx, cur.name) = 1

\* C12: providers run only on a cache miss of Get, and with an acyclic
\* dependency graph and providers that succeed the provider for n is
\* invoked at most once per transaction: once in a transaction that holds n
\* and did not inherit it at its fork, never in a fork that inherited it.
C12_AtMostOncePerTransaction ==
    /\ OnlyOnCacheMiss
    /\ AcyclicAndSucceeding =>
          /\ AllInvocationsReturned
          /\ \A t \in Txs : \A n \in DOMAIN providers :
             /\ Returns(t, n) + InProgress(t, n) <= 1
             /\ Returns(t, n) =
                   IF n \in (DOMAIN Cache(t)) \ (DOMAIN txs[t].snap) THEN 1 ELSE 0

\* a fork was asked for a service it inherited: its parent's provider ran
\* once, the fork's never
C12_Witness ==
    /\ container = "deps" /\ Idle /\ cur.op = "get"
    /\ cur.tx \in Forks
    /\ cur.name \in DOMAIN txs[cur.tx].snap
    /\ Returns(cur.tx, cur.name) = 0
    /\ Returns(txs[cur.tx].parent, cur.name) = 1

----------------------------------------------------------------------------
(* C13 *)

\* the transactions the container created
FromContainer == {t \in Txs : txs[t].parent = 0}

\* every entry of t's cache was returned by a provider invoked on t itself
OwnEntriesOnly(t) ==
    \A n \in DOMAIN Cache(t) :
       \E e \in txs[t].made : e.name = n /\ e.val = Cache(t)[n]

----------------------------------------------------------------------------
(* C14 *)

\* an outcome whatever transaction built the object it carries
Norm(o) == [o EXCEPT !.val.tx = 0]

\* t is a scope entered on the container without params and the operation
\* that just finished is the first read of a name from it
FirstScopedRead(t) ==
    /\ Idle
    /\ cur.op \in {"get", "read"}
    /\ cur.tx = t
    /\ t \in FromContainer
    /\ txs[t].kind = "scope"
    /\ Params(t) = EmptyDict
    /\ cur.pre = EmptyDict

\* C14 as stated: for every name, also one that is an attribute of the
\* transaction itself, Container.Get(name) and the first read of name from
\* a scope entered without params give the same outcome.
C14_GetEqualsScopedRead ==
    \A i \in Implicit : \A t \in Txs :
       (FirstScopedRead(t) /\ txs[i].root = cur.name /\ txs[i].outcome # None)
          => Norm(txs[i].outcome) = Norm(ret)

\* C14: for every name that is not an attribute of the transaction itself,
\* registered or not, Container.Get(name) and the first read of name from a
\* scope entered without params give the same outcome; for `params` the
\* scoped read gives the transaction's params dict and Container.Get fails
\* with a missing provider.
C14_GetEqualsScopedReadOfServices ==
    /\ \A i \in Implicit : \A t \in Txs :
          (FirstScopedRead(t) /\ txs[i].root = cur.name /\ txs[i].outcome # None)
             => IF cur.name \in OwnAttributes
                THEN /\ ret = Ok(ParamsObject(Running, t))
                     /\ txs[i].outcome = Err("KeyError", cur.name)
                ELSE Norm(txs[i].outcome) = Norm(ret)
    /\ \A i \in Implicit : Idle => txs[i].outcome # None

\* sc.comparison returned True and so did the first read of comparison
\* from a scope
C14_Witness ==
    \E i \in Implicit : \E t \in Txs :
       /\ FirstScopedRead(t)
       /\ txs[i].root = cur.name
       /\ cur.name = "comparison"
       /\ ret = Ok(PyTrue)
       /\ txs[i].outcome = ret

----------------------------------------------------------------------------
(* C15 *)

\* the provider for n was invoked again while an invocation of it was in
\* progress: a returned invocation leaves n cached and a failed one ends
\* the operation, so a second invocation in one operation is a re-entry
ReEntered(n) == inv[n] >= 2

\* C15: once resolving n has re-entered the resolution of n, no Get(n) of
\* the operation returns a value and the operation ends in the error of a
\* circular dependency.
C15_ReentryAlwaysFails ==
    \A n \in DOMAIN providers :
       ReEntered(n) =>
          /\ \A r \in recv : r.name # n
          /\ Idle => ret.status = "err" /\ ret.err = "RecursionError"

----------------------------------------------------------------------------
(* C16 *)

\* the provider registered under n is a callable that declares neither no
\* argument nor one
InvalidArity(n) ==
    /\ n \in DOMAIN providers
    /\ providers[n].callable
    /\ providers[n].arity \notin {0, 1}

\* C16: constructing a container with a provider of two arguments raises
\* nothing; every Get of its name, the first included, fails at once with
\* the error for an invalid provider, the provider is never invoked, no
\* invocation of it has ever returned and nothing is cached for the name
\* (the cache is as the Get found it).
C16_InvalidProvider ==
    /\ cur.op = "init" => ret = None
    /\ \A t \in Txs : \A n \in DOMAIN providers :
          InvalidArity(n) => n \notin DOMAIN Cache(t) /\ Returns(t, n) = 0
    /\ (IsGet /\ InvalidArity(cur.name)) =>
          /\ Idle
          /\ ret = Err("ValueError", cur.name)
          /\ inv = NoCalls
          /\ Cache(cur.tx) = cur.pre

\* t.two_args failed on a transaction that had resolved obj, which it keeps
C16_Witness ==
    /\ cur.op = "get"
    /\ cur.name = "two_args"
    /\ InvalidArity(cur.name)
    /\ ret = Err("ValueError", "two_args")
    /\ "obj" \in DOMAIN Cache(cur.tx)

----------------------------------------------------------------------------
(* C17 *)

\* the names first resolved in the fork d: cached there, not inherited
ResolvedInFork(d) == (DOMAIN Cache(d)) \ (DOMAIN txs[d].snap)

\* C17: entering a scope on a transaction t yields another transaction,
\* with dicts of its own that start as t's cache and t's params (plus the
\* params given); what the fork resolves first is not added to t's cache
\* (an entry t holds for such a name was returned by a provider invoked on
\* t), so a t.Get(n) that does not find n invokes the provider for n.
C17_NestedScopeForks ==
    /\ \A d \in Forks :
          LET t == txs[d].parent IN
          /\ d # t
          /\ txs[d].services # txs[t].services
          /\ txs[d].params # txs[t].params
          /\ \A k \in DOMAIN Params(t) : k \in DOMAIN Params(d) /\ Params(d)[k] = Params(t)[k]
          /\ \A n \in ResolvedInFork(d) \cap DOMAIN Cache(t) :
                \E e \in txs[t].made : e.name = n /\ e.val = Cache(t)[n]
    /\ (cur.op = "fork" /\ ret.status = "ok") =>
          LET d == Len(txs) IN
          /\ d \in Forks /\ txs[d].parent = cur.tx
          /\ Cache(d) = cur.pre /\ Cache(d) = Cache(cur.tx) /\ txs[d].snap = cur.pre
          /\ DOMAIN Params(d) = (DOMAIN Params(cur.tx)) \cup {cur.items[i].k : i \in 1..Len(cur.items)}
    /\ \A d \in Forks :
          (/\ Idle /\ cur.op = "get" /\ cur.tx = txs[d].parent
           /\ cur.name \in ResolvedInFork(d)
           /\ cur.name \notin DOMAIN cur.pre)
             => inv[cur.name] >= 1

\* obj was first resolved in the fork; the parent did not have it, invoked
\* the provider and holds another instance
C17_Witness ==
    \E d \in Forks :
       /\ Idle /\ cur.op = "get" /\ cur.tx = txs[d].parent
       /\ cur.name \in ResolvedInFork(d)
       /\ cur.name \notin DOMAIN cur.pre
       /\ Fresh(cur.name)
       /\ inv[cur.name] = 1
       /\ ret = Ok(Cache(cur.tx)[cur.name])
       /\ Cache(d)[cur.name] # Cache(cur.tx)[cur.name]

----------------------------------------------------------------------------
(* C18 *)

\* a top-level Get on t ended in an error after invoking a provider
FailedGet(t) ==
    /\ Idle /\ IsGet
    /\ cur.tx = t
    /\ ret.status = "err"
    /\ inv # NoCalls

\* C18: after a Get on t that failed in a provider, every dependency a
\* provider received is in t's cache with that instance and the last
\* instance each provider returned is the entry of its name; a name is in
\* the cache exactly if it was there before the call or its provider has
\* returned; every entry present before the call is unchanged.
C18_FailedGetKeepsCompletedWork ==
    \A t \in Txs :
       FailedGet(t) =>
          /\ \A r \in recv : r.name \in DOMAIN Cache(t) /\ Cache(t)[r.name] = r.val
          /\ \A e \in txs[t].made :
                e.k = Returns(t, e.name)
                   => e.name \in DOMAIN Cache(t) /\ Cache(t)[e.name] = e.val
          /\ \A n \in DOMAIN providers :
                n \in DOMAIN Cache(t) <=> (n \in DOMAIN cur.pre \/ Returns(t, n) >= 1)
          /\ \A n \in DOMAIN cur.pre :
                n \in DOMAIN Cache(t) /\ Cache(t)[n] = cur.pre[n]

\* t.half failed in throw after obj had been built: obj stays, half and
\* throw are absent
C18_Witness ==
    /\ FailedGet(cur.tx)
    /\ cur.name = "half"
    /\ ret = Err("IOError", "throw")
    /\ cur.pre = EmptyDict
    /\ DOMAIN Cache(cur.tx) = {"obj"}
    /\ \E r \in recv : r.by = "half" /\ r.name = "obj" /\ r.val = Cache(cur.tx)["obj"]

----------------------------------------------------------------------------
(* C19 *)

RECURSIVE Provenance(_, _, _)
\* v was returned by an invocation of the provider for n on t, or t
\* received it as n's entry at its fork from a parent of which the same is
\* true
Provenance(t, n, v) ==
    \/ \E e \in txs[t].made : e.name = n /\ e.val = v
    \/ /\ txs[t].parent # 0
       /\ n \in DOMAIN txs[t].snap
       /\ txs[t].snap[n] = v
       /\ Provenance(txs[t].parent, n, v)

\* C19: every entry (n, v) of a transaction's cache has a registered
\* provider for n and was returned by an invocation of it on the
\* transaction itself or was inherited at the fork, where the parent held
\* it with the same provenance; an object a provider built was built for the
\* transaction or for an ancestor, never for a sibling or a descendant.
C19_CacheProvenance ==
    /\ \A t \in Txs : \A n \in DOMAIN Cache(t) :
          /\ n \in DOMAIN providers
          /\ Provenance(t, n, Cache(t)[n])
          /\ Fresh(n) => Cache(t)[n].tx = t \/ IsAncestor(Cache(t)[n].tx, t)
    /\ (cur.op = "fork" /\ ret.status = "ok") =>
          \A n \in DOMAIN txs[Len(txs)].snap :
             /\ txs[Len(txs)].snap[n] = cur.pre[n]
             /\ Provenance(cur.tx, n, cur.pre[n])

\* a fork holds an entry it inherited and one it resolved itself, and its
\* parent has since resolved a name the fork does not hold
C19_Witness ==
    \E d \in Forks :
       /\ Idle
       /\ txs[d].snap # EmptyDict
       /\ ResolvedInFork(d) # {}
       /\ (DOMAIN Cache(txs[d].parent)) \ (DOMAIN Cache(d)) # {}
====
